---- MODULE Spec2Model ----
(***************************************************************************)
(* A model of paradecor's DXF accuracy tooling:                            *)
(*   tests/compare_dxf.py  - parse_shapes (endpoint fusion with a          *)
(*                           union-find), classify_shapes,                 *)
(*                           compute_bounding_box_overlap, compare_dxfs    *)
(*                           and the command-line entry point;             *)
(*   scripts/para_ops.py   - the test-dxf / check-dxf / debug-dxf          *)
(*                           commands.                                     *)
(*                                                                         *)
(* Three specifications share the module's variables:                      *)
(*   FuseSpec     the union-find pass of parse_shapes, one loop iteration  *)
(*                per step.  Coordinates are integers in 1/1000 mm.        *)
(*   CompareSpec  a two-argument run of compare_dxf.py.  Lengths are       *)
(*                integers in 1/10 mm, areas in 1/10 mm^2, percentages     *)
(*                and scores in tenths (1000 = 100.0).                     *)
(*   OpsSpec      a run of para_ops.py.                                    *)
(* Python lists are 0-based; the sequences here are 1-based.               *)
(***************************************************************************)
EXTENDS Integers, Sequences, FiniteSets, TLC

VARIABLES
    \* parse_shapes, lines 98-113
    raw_shapes,     \* the primitives extracted from the drawing
    uf_parent,      \* UnionFind.parent
    point_map,      \* quantized point -> index of its latest owner
    idx,            \* the loop variable i of line 101
    groups,         \* root index -> member indices, line 111
    fpc,            \* position in parse_shapes
    \* compare_dxf.py __main__ and compare_dxfs
    argc,           \* len(sys.argv)
    gen_file,       \* the file named by sys.argv[1]
    ref_file,       \* the file named by sys.argv[2]
    gen_shapes,     \* parse_shapes(generated_path)
    ref_shapes,     \* parse_shapes(reference_path)
    gen_classified, \* classify_shapes(gen_shapes)
    ref_classified, \* classify_shapes(ref_shapes)
    metrics,        \* the metrics dict
    stdout,         \* what the run has printed
    exit_code,      \* the process exit status
    cpc,            \* position in the run
    \* para_ops.py
    cmd,            \* sys.argv[1], "" when there is none
    env,            \* what the command finds around it
    test_runs,      \* how often the Playwright run was started
    returncode,     \* what run_dxf_tests returned to main
    ops_out,        \* what the command has printed
    ops_exit,       \* the exit status of the command
    ops_pc          \* position in main

fuseVars == <<raw_shapes, uf_parent, point_map, idx, groups, fpc>>
cmpVars == <<argc, gen_file, ref_file, gen_shapes, ref_shapes, gen_classified,
             ref_classified, metrics, stdout, exit_code, cpc>>
opsVars == <<cmd, env, test_runs, returncode, ops_out, ops_exit, ops_pc>>
vars == <<fuseVars, cmpVars, opsVars>>

----------------------------------------------------------------------------
\* Arithmetic helpers

Min(a, b) == IF a <= b THEN a ELSE b

Max(a, b) == IF a >= b THEN a ELSE b

Abs(a) == IF a >= 0 THEN a ELSE 0 - a

\* min() and max() of a non-empty collection of numbers.
SetMin(S) == CHOOSE x \in S : \A y \in S : x <= y

SetMax(S) == CHOOSE x \in S : \A y \in S : x >= y

\* Python's round(): n / d (n >= 0, d > 0) to the nearest integer, an exact tie
\* to the even one.
RoundHalfEven(n, d) ==
    LET q == n \div d
        r == n % d
    IN IF 2 * r > d \/ (2 * r = d /\ q % 2 = 1) THEN q + 1 ELSE q

----------------------------------------------------------------------------
\* parse_shapes: the union-find pass (FuseSpec)

MaxPrims == 3

\* Raw (x, y) points in 1/1000 mm.  The first two differ by less than half a
\* hundredth and quantize to the same key; no coordinate lies on a rounding tie
\* (where round() of a binary float depends on the float's representation).
RawPoints == { <<0, 0>>, <<4, 0>>, <<6, 0>>, <<6, 1004>> }

\* The primitives a drawing may hold: a LINE between two distinct points, in
\* either direction (pts = [start, end]), or a CIRCLE (pts = [center]).
PrimPool ==
    { [type |-> "LINE", pts |-> <<e[1], e[2]>>] :
          e \in { d \in RawPoints \X RawPoints : d[1] # d[2] } }
    \cup { [type |-> "CIRCLE", pts |-> <<a>>] : a \in { <<0, 0>>, <<6, 1004>> } }

\* round(v, 2) of a coordinate, in 1/100 mm.
Round2(v) == RoundHalfEven(v, 10)

pt_key(x, y) == <<Round2(x), Round2(y)>>

\* dict.setdefault(i, i)
SetDefault(parent, i) == IF i \in DOMAIN parent THEN parent ELSE (i :> i) @@ parent

\* UnionFind.find: the value it returns ...
RECURSIVE FindRoot(_, _)
FindRoot(parent, i) ==
    LET p == SetDefault(parent, i)
    IN IF p[i] = i THEN i ELSE FindRoot(p, p[i])

\* ... and the parent dict it leaves behind (path compression).
RECURSIVE FindParent(_, _)
FindParent(parent, i) ==
    LET p == SetDefault(parent, i)
    IN IF p[i] = i THEN p
       ELSE LET q == FindParent(p, p[i])
            IN [q EXCEPT ![i] = FindRoot(p, p[i])]

\* A plausible slip: linking i itself, not its root, under j's root.
UnionNoRoot(parent, i, j) ==
    LET p1 == FindParent(parent, i)
        p2 == FindParent(p1, j)
        root_i == FindRoot(parent, i)
        root_j == FindRoot(p1, j)
    IN IF root_i # root_j THEN [p2 EXCEPT ![i] = root_j] ELSE p2

\* UnionFind.union
Union(parent, i, j) ==
    LET p1 == FindParent(parent, i)
        p2 == FindParent(p1, j)
        root_i == FindRoot(parent, i)
        root_j == FindRoot(p1, j)
    IN IF root_i # root_j THEN [p2 EXCEPT ![root_i] = root_j] ELSE p2

\* One pass of the inner loop "for p in (p1, p2)" for primitive i.
Visit(st, i, p) ==
    [parent |-> IF p \in DOMAIN st.point_map
                THEN Union(st.parent, i, st.point_map[p])
                ELSE st.parent,
     point_map |-> (p :> i) @@ st.point_map]

\* The body of the loop of line 101 for primitive i.
FuseOne(st, i, s) ==
    LET n == Len(s.pts)
        p1 == pt_key(s.pts[1][1], s.pts[1][2])
        p2 == pt_key(s.pts[n][1], s.pts[n][2])
    IN IF n = 0 THEN st ELSE Visit(Visit(st, i, p1), i, p2)

\* The loop of lines 101-109 over shapes[from..].
RECURSIVE FuseFrom(_, _, _)
FuseFrom(st, shapes, from) ==
    IF from > Len(shapes) THEN st
    ELSE FuseFrom(FuseOne(st, from, shapes[from]), shapes, from + 1)

\* The loop of lines 111-113: groups[uf.find(i)].append(raw_shapes[i]); a group
\* is kept as the indices of its members, in order.  find() compresses paths as
\* it goes.
RECURSIVE GroupFrom(_, _, _)
GroupFrom(st, n, i) ==
    IF i > n THEN st
    ELSE LET r == FindRoot(st.parent, i)
             old == IF r \in DOMAIN st.groups THEN st.groups[r] ELSE << >>
         IN GroupFrom([parent |-> FindParent(st.parent, i),
                       groups |-> (r :> Append(old, i)) @@ st.groups], n, i + 1)

EmptyDict == [x \in {} |-> 0]

\* The groups parse_shapes forms from a whole primitive list.
GroupsOf(shapes) ==
    GroupFrom([parent |-> FuseFrom([parent |-> EmptyDict, point_map |-> EmptyDict],
                                   shapes, 1).parent,
               groups |-> EmptyDict], Len(shapes), 1).groups

\* A dict of groups as a partition of the indices.
PartitionOf(g) == { { g[r][k] : k \in 1..Len(g[r]) } : r \in DOMAIN g }

IdleOps ==
    /\ cmd = ""
    /\ env = [playwright_rc |-> 0]
    /\ test_runs = 0
    /\ returncode = 0
    /\ ops_out = << >>
    /\ ops_exit = 0 - 1
    /\ ops_pc = "idle"

IdleCompare ==
    /\ argc = 0
    /\ gen_file = [status |-> "none"]
    /\ ref_file = [status |-> "none"]
    /\ gen_shapes = << >>
    /\ ref_shapes = << >>
    /\ gen_classified = [total |-> 0]
    /\ ref_classified = [total |-> 0]
    /\ metrics = [overall_score |-> 0]
    /\ stdout = << >>
    /\ exit_code = 0 - 1
    /\ cpc = "idle"

InitFuse ==
    /\ raw_shapes \in UNION { [1..n -> PrimPool] : n \in 0..MaxPrims }
    /\ uf_parent = EmptyDict
    /\ point_map = EmptyDict
    /\ idx = 1
    /\ groups = EmptyDict
    /\ fpc = "fuse"
    /\ IdleCompare
    /\ IdleOps

\* One iteration of "for i, s in enumerate(raw_shapes)".
FuseStep ==
    /\ fpc = "fuse"
    /\ idx <= Len(raw_shapes)
    /\ LET st == FuseOne([parent |-> uf_parent, point_map |-> point_map],
                         idx, raw_shapes[idx])
       IN /\ uf_parent' = st.parent
          /\ point_map' = st.point_map
    /\ idx' = idx + 1
    /\ UNCHANGED <<raw_shapes, groups, fpc, cmpVars, opsVars>>

\* "for i in range(len(raw_shapes)): groups[uf.find(i)].append(raw_shapes[i])"
GroupStep ==
    /\ fpc = "fuse"
    /\ idx > Len(raw_shapes)
    /\ LET st == GroupFrom([parent |-> uf_parent, groups |-> EmptyDict],
                           Len(raw_shapes), 1)
       IN /\ groups' = st.groups
          /\ uf_parent' = st.parent
    /\ fpc' = "done"
    /\ UNCHANGED <<raw_shapes, point_map, idx, cmpVars, opsVars>>

NextFuse == FuseStep \/ GroupStep

FuseSpec == InitFuse /\ [][NextFuse]_vars

----------------------------------------------------------------------------
\* compare_dxf.py: descriptors, classification, comparison (CompareSpec)
\*
\* Lengths are integers in 1/10 mm, so products of two lengths are in 1/100 mm^2;
\* a descriptor's area is kept in 1/10 mm^2 (round(w * h, 1)); percentages and
\* scores are kept in tenths (1000 = 100.0).  Every Python round() is carried
\* out on exact values, ties to even.

MaxGen == 3

MaxRef == 4

\* n millimetres, as a length.
Mm(n) == n * 10

\* n square millimetres, as a descriptor area.
Mm2(n) == n * 10

Rect(x0, y0, x1, y1) == << <<x0, y0>>, <<x1, y0>>, <<x1, y1>>, <<x0, y1>> >>

\* raw_shapes entries as the extraction loop (lines 44-96) builds them.  Bulges
\* are in 1/1000.
LwPolyline(points, bulges) ==
    [type |-> "LWPOLYLINE", pts |-> points, bbox_pts |-> points,
     bulges |-> bulges, layer |-> "0"]

Line(a, b) ==
    [type |-> "LINE", pts |-> <<a, b>>, bbox_pts |-> <<a, b>>,
     bulges |-> << >>, layer |-> "0"]

Arc(cx, cy, r, sp, ep) ==
    [type |-> "ARC", pts |-> <<sp, ep>>,
     bbox_pts |-> << <<cx - r, cy - r>>, <<cx + r, cy + r>> >>,
     bulges |-> <<1000>>, layer |-> "0"]

\* The groups of fused primitives a drawing may hold (the union-find pass that
\* forms them is FuseSpec's); no two groups share a first or last point.
\*   1 a 1200 x 2400 stock sheet        2 a 50 x 49 rectangular part
\*   3 a 60 x 41 part with 8 vertices   4 an 800 x 700 rectangular backplane
\*   5 an 810 x 700 backplane with 51 vertices
\*   6 a 12 x 30 slot: two lines closed by two arcs
\*   7 an 8 x 0.1 bulged two-vertex polyline   8 a 10 x 0 one
ShapePool ==
    << << LwPolyline(Rect(0, 0, 12000, 24000), <<0, 0, 0, 0>>) >>,
       << LwPolyline(Rect(1000, 1000, 1500, 1490), <<0, 0, 0, 0>>) >>,
       << LwPolyline(<< <<2100, 1000>>, <<2500, 1000>>, <<2600, 1100>>, <<2600, 1310>>,
                        <<2500, 1410>>, <<2100, 1410>>, <<2000, 1310>>, <<2000, 1100>> >>,
                     <<0, 0, 0, 0, 0, 0, 0, 0>>) >>,
       << LwPolyline(Rect(100, 100, 8100, 7100), <<0, 0, 0, 0>>) >>,
       << LwPolyline([k \in 1..51 |-> <<200 + 162 * (k - 1),
                                        IF k % 2 = 1 THEN 300 ELSE 7300>>],
                     [k \in 1..51 |-> 0]) >>,
       << Line(<<1000, 5060>>, <<1000, 5240>>),
          Arc(1060, 5240, 60, <<1000, 5240>>, <<1120, 5240>>),
          Line(<<1120, 5240>>, <<1120, 5060>>),
          Arc(1060, 5060, 60, <<1120, 5060>>, <<1000, 5060>>) >>,
       << LwPolyline(<< <<3000, 5000>>, <<3080, 5001>> >>, <<500, 0>>) >>,
       << LwPolyline(<< <<4000, 5000>>, <<4100, 5000>> >>, <<500, 0>>) >> >>

\* The elements of a set of integers in increasing order.
RECURSIVE SortedSeq(_)
SortedSeq(S) == IF S = {} THEN << >>
                ELSE LET x == SetMin(S) IN <<x>> \o SortedSeq(S \ {x})

\* What ezdxf.readfile finds at a path: no file, a file that is no drawing, or
\* a drawing, given as the pool groups it holds.
Files(n) ==
    { [status |-> "missing", shapes |-> << >>], [status |-> "corrupt", shapes |-> << >>] }
    \cup { [status |-> "ok", shapes |-> SortedSeq(S)] :
               S \in { T \in SUBSET (1..Len(ShapePool)) : Cardinality(T) <= n } }

RECURSIVE Flatten(_)
Flatten(ss) == IF ss = << >> THEN << >> ELSE Head(ss) \o Flatten(Tail(ss))

Range(q) == { q[k] : k \in 1..Len(q) }

\* The descriptor of one group (lines 116-150); id stands for the identity of
\* the dict object.  On the 1/10 mm grid round(v, 2) leaves a length unchanged;
\* cx, cy are in 1/100 mm.
Descriptor(sub_shapes, id) ==
    LET pts == Flatten([k \in 1..Len(sub_shapes) |-> sub_shapes[k].bbox_pts])
        all_xs == { pts[k][1] : k \in 1..Len(pts) }
        all_ys == { pts[k][2] : k \in 1..Len(pts) }
        min_x == SetMin(all_xs)
        max_x == SetMax(all_xs)
        min_y == SetMin(all_ys)
        max_y == SetMax(all_ys)
        w == max_x - min_x
        h == max_y - min_y
    IN [id |-> id,
        type |-> IF Len(sub_shapes) > 1 THEN "POLYLINE" ELSE sub_shapes[1].type,
        layer |-> sub_shapes[1].layer,
        width |-> w,
        height |-> h,
        min_x |-> min_x,
        min_y |-> min_y,
        max_x |-> max_x,
        max_y |-> max_y,
        cx |-> (min_x + max_x) * 5,
        cy |-> (min_y + max_y) * 5,
        has_bulge |-> \E k \in 1..Len(sub_shapes) :
                          \E b \in Range(sub_shapes[k].bulges) : Abs(b) > 1,
        area |-> RoundHalfEven(w * h, 10),
        num_pts |-> Len(Flatten([k \in 1..Len(sub_shapes) |-> sub_shapes[k].pts]))]

\* parse_shapes of a readable drawing: one descriptor per group.
ParseShapes(file) ==
    [k \in 1..Len(file.shapes) |-> Descriptor(ShapePool[file.shapes[k]], k)]

IsSheet(s) == s.width > Mm(1000) /\ s.height > Mm(2000)

IsSlot(s) ==
    /\ Abs(s.width - Mm(12)) < Mm(5) \/ Abs(s.height - Mm(12)) < Mm(5)
    /\ s.has_bulge
    /\ s.area < Mm2(10000)

\* A plausible slip: the sheets are not excluded from the parts.
RybsNoSheetExclusion(shapes, sheets, slots) ==
    LET slot_set == { s.id : s \in Range(slots) }
    IN SelectSeq(shapes, LAMBDA s : /\ s.id \notin slot_set
                                    /\ s.area > Mm2(100)
                                    /\ s.width > Mm(20) /\ s.height > Mm(20))

\* lines 166-172
Rybs(shapes, sheets, slots) ==
    LET slot_set == { s.id : s \in Range(slots) }
        sheet_set == { s.id : s \in Range(sheets) }
    IN SelectSeq(shapes, LAMBDA s : /\ s.id \notin slot_set
                                    /\ s.id \notin sheet_set
                                    /\ s.area > Mm2(100)
                                    /\ s.width > Mm(20) /\ s.height > Mm(20))

classify_shapes(shapes) ==
    LET sheets == SelectSeq(shapes, IsSheet)
        slots == SelectSeq(shapes, IsSlot)
    IN [sheets |-> sheets,
        rybs |-> Rybs(shapes, sheets, slots),
        slots |-> slots,
        total |-> Len(shapes)]

\* The value standing for a ZeroDivisionError raised by a "/"; every value the
\* code computes is >= 0.
Raise == 0 - 1

\* round(n / d * 100, 1) in tenths of a percent, for n >= 0 and d > 0: the
\* quotient 1000 * n / d digit by digit (1000 * n itself may not fit 32 bits),
\* then rounded.
PermilleOf(n, d) ==
    LET q0 == n \div d
        r0 == n % d
        q1 == 10 * q0 + (10 * r0) \div d
        r1 == (10 * r0) % d
        q2 == 10 * q1 + (10 * r1) \div d
        r2 == (10 * r1) % d
        q3 == 10 * q2 + (10 * r2) \div d
        r3 == (10 * r2) % d
    IN IF 2 * r3 > d \/ (2 * r3 = d /\ q3 % 2 = 1) THEN q3 + 1 ELSE q3

\* A plausible slip: the intersection is counted twice in the union.
BoxUnionCountsOverlapTwice(area_a, area_b, overlap) == area_a + area_b

\* line 210
BoxUnion(area_a, area_b, overlap) == area_a + area_b - overlap

\* A plausible slip: the union is divided by as it is.
UnionDenominatorNoFloor(union) == union

\* max(union, 1) of line 212, the union being in 1/100 mm^2.
UnionDenominator(union) == Max(union, 100)

\* lines 182-212, in tenths of a percent.
compute_bounding_box_overlap(shapes_a, shapes_b) ==
    IF shapes_a = << >> \/ shapes_b = << >> THEN 0
    ELSE
    LET all_a_min_x == SetMin({ s.min_x : s \in Range(shapes_a) })
        all_a_max_x == SetMax({ s.max_x : s \in Range(shapes_a) })
        all_a_min_y == SetMin({ s.min_y : s \in Range(shapes_a) })
        all_a_max_y == SetMax({ s.max_y : s \in Range(shapes_a) })
        all_b_min_x == SetMin({ s.min_x : s \in Range(shapes_b) })
        all_b_max_x == SetMax({ s.max_x : s \in Range(shapes_b) })
        all_b_min_y == SetMin({ s.min_y : s \in Range(shapes_b) })
        all_b_max_y == SetMax({ s.max_y : s \in Range(shapes_b) })
        ox1 == Max(all_a_min_x, all_b_min_x)
        ox2 == Min(all_a_max_x, all_b_max_x)
        oy1 == Max(all_a_min_y, all_b_min_y)
        oy2 == Min(all_a_max_y, all_b_max_y)
    IN IF ox2 <= ox1 \/ oy2 <= oy1 THEN 0
       ELSE
       LET overlap == (ox2 - ox1) * (oy2 - oy1)
           area_a == (all_a_max_x - all_a_min_x) * (all_a_max_y - all_a_min_y)
           area_b == (all_b_max_x - all_b_min_x) * (all_b_max_y - all_b_min_y)
           union == BoxUnion(area_a, area_b, overlap)
           den == UnionDenominator(union)
       IN IF den = 0 THEN Raise ELSE PermilleOf(overlap, den)

\* A plausible slip: the bucket is the area rounded down.
SizeBucketFloor(area) == (area \div Mm2(100)) * Mm2(100)

\* round(s['area'], -2) of lines 257-258
SizeBucket(area) == RoundHalfEven(area, Mm2(100)) * Mm2(100)

\* lines 257-268, in tenths of a percent.
SizeDistributionMatch(gen_rybs, ref_rybs) ==
    IF gen_rybs # << >> /\ ref_rybs # << >>
    THEN LET gen_set == { SizeBucket(s.area) : s \in Range(gen_rybs) }
             ref_set == { SizeBucket(s.area) : s \in Range(ref_rybs) }
             common == Cardinality(gen_set \cap ref_set)
             total == Cardinality(gen_set \cup ref_set)
             den == Max(total, 1)
         IN IF den = 0 THEN Raise ELSE RoundHalfEven(common * 1000, den)
    ELSE 0

SlotsConsistent(slots) ==
    \A s \in Range(slots) : Abs(Min(s.width, s.height) - Mm(12)) < Mm(3)

\* lines 271-278
SlotWidthConsistency(gen_slots, ref_slots) ==
    IF gen_slots # << >> /\ ref_slots # << >>
    THEN SlotsConsistent(gen_slots) /\ SlotsConsistent(ref_slots)
    ELSE FALSE

IsBackplane(s) == s.area > Mm2(500000)

IsOrganicBackplane(s) == s.area > Mm2(500000) /\ s.num_pts > 50

HasTabs(s) == s.area < Mm2(500000) /\ s.num_pts >= 8

\* lines 281-283, 286
has_slots(m) == IF m.slot_count_generated > 0 THEN 15 ELSE 0

has_rybs(m) == IF m.ryb_count_generated > 0 THEN 15 ELSE 0

\* A plausible slip: the backplane weighs as much as the other terms.
has_backplane_15(m) == IF m.has_backplane_generated THEN 15 ELSE 0

has_backplane(m) == IF m.has_backplane_generated THEN 10 ELSE 0

organic_bp_score(m) == IF m.is_backplane_organic_generated THEN 15 ELSE 0

\* line 287
tabs_score(m) ==
    IF m.rybs_with_tabs_generated >= Min(m.ryb_count_reference, 10) THEN 15 ELSE 0

\* A plausible slip: the reference count is divided by as it is.
CountDenominatorNoFloor(reference) == reference

\* max(reference, 1) of lines 289-290
CountDenominator(reference) == Max(reference, 1)

\* min(15, 15 * min(generated, reference) / max(reference, 1)) of lines 289-290,
\* as the fraction num / den; den = 0 stands for the ZeroDivisionError.
CountScore(generated, reference) ==
    LET den == CountDenominator(reference)
        num == 15 * Min(generated, reference)
    IN IF den # 0 /\ num > 15 * den THEN [num |-> 15, den |-> 1]
       ELSE [num |-> num, den |-> den]

\* A plausible slip: the proportional terms are left out of the sum.
overall_score_no_counts(m) ==
    10 * (has_slots(m) + has_rybs(m) + has_backplane(m) + organic_bp_score(m)
          + tabs_score(m))

\* lines 289-292, in tenths of a point.
overall_score(m) ==
    LET ryb_count_score == CountScore(m.ryb_count_generated, m.ryb_count_reference)
        slot_score == CountScore(m.slot_count_generated, m.slot_count_reference)
        fixed == has_slots(m) + has_rybs(m) + has_backplane(m) + organic_bp_score(m)
                 + tabs_score(m)
    IN IF ryb_count_score.den = 0 \/ slot_score.den = 0 THEN Raise
       ELSE RoundHalfEven(
                10 * (fixed * ryb_count_score.den * slot_score.den
                      + ryb_count_score.num * slot_score.den
                      + slot_score.num * ryb_count_score.den),
                ryb_count_score.den * slot_score.den)

Count(shapes, P(_)) == Len(SelectSeq(shapes, P))

\* The metrics dict of lines 223-254.
BaseMetrics(gc, rc) ==
    [shape_count_generated |-> gc.total,
     shape_count_reference |-> rc.total,
     shape_count_match |-> gc.total = rc.total,
     ryb_count_generated |-> Len(gc.rybs),
     ryb_count_reference |-> Len(rc.rybs),
     ryb_count_match |-> Len(gc.rybs) = Len(rc.rybs),
     slot_count_generated |-> Len(gc.slots),
     slot_count_reference |-> Len(rc.slots),
     slot_count_match |-> Len(gc.slots) = Len(rc.slots),
     sheet_count_generated |-> Len(gc.sheets),
     sheet_count_reference |-> Len(rc.sheets),
     has_backplane_generated |-> \E s \in Range(gc.rybs) : IsBackplane(s),
     has_backplane_reference |-> \E s \in Range(rc.rybs) : IsBackplane(s),
     is_backplane_organic_generated |-> \E s \in Range(gc.rybs) : IsOrganicBackplane(s),
     is_backplane_organic_reference |-> \E s \in Range(rc.rybs) : IsOrganicBackplane(s),
     rybs_with_tabs_generated |-> Count(gc.rybs, HasTabs),
     rybs_with_tabs_reference |-> Count(rc.rybs, HasTabs),
     bounding_box_overlap_rybs |-> compute_bounding_box_overlap(gc.rybs, rc.rybs),
     bounding_box_overlap_slots |-> compute_bounding_box_overlap(gc.slots, rc.slots)]

\* The metrics compare_dxfs returns (lines 223-294).
CompareMetrics(gc, rc) ==
    LET m == BaseMetrics(gc, rc)
    IN [size_distribution_match |-> SizeDistributionMatch(gc.rybs, rc.rybs),
        slot_width_consistency |-> SlotWidthConsistency(gc.slots, rc.slots),
        overall_score |-> overall_score(m)] @@ m

\* Some "/" of compare_dxfs raised.
Raised(m) ==
    Raise \in { m.bounding_box_overlap_rybs, m.bounding_box_overlap_slots,
                m.size_distribution_match, m.overall_score }

IdleFuse ==
    /\ raw_shapes = << >>
    /\ uf_parent = EmptyDict
    /\ point_map = EmptyDict
    /\ idx = 0
    /\ groups = EmptyDict
    /\ fpc = "idle"

\* compare_dxf.py started with argc - 1 arguments.
InitCompare ==
    /\ argc \in {2, 3}
    /\ gen_file \in IF argc = 3 THEN Files(MaxGen) ELSE { [status |-> "none"] }
    /\ ref_file \in IF argc = 3 THEN Files(MaxRef) ELSE { [status |-> "none"] }
    /\ gen_shapes = << >>
    /\ ref_shapes = << >>
    /\ gen_classified = [total |-> 0]
    /\ ref_classified = [total |-> 0]
    /\ metrics = [overall_score |-> 0]
    /\ stdout = << >>
    /\ exit_code = 0 - 1
    /\ cpc = "start"
    /\ IdleFuse
    /\ IdleOps

\* lines 298-300
Usage ==
    /\ cpc = "start"
    /\ argc < 3
    /\ stdout' = Append(stdout, "usage")
    /\ exit_code' = 1
    /\ cpc' = "exit"
    /\ UNCHANGED <<argc, gen_file, ref_file, gen_shapes, ref_shapes, gen_classified,
                   ref_classified, metrics, fuseVars, opsVars>>

\* An exception nobody catches: the traceback goes to standard error and the
\* interpreter exits with status 1.
Uncaught ==
    /\ exit_code' = 1
    /\ cpc' = "exit"
    /\ UNCHANGED stdout

\* A plausible slip: a reference that cannot be read counts as an empty drawing.
ParseReferenceSwallowsErrors ==
    /\ cpc = "parsed_gen"
    /\ ref_shapes' = IF ref_file.status = "ok" THEN ParseShapes(ref_file) ELSE << >>
    /\ cpc' = "parsed_ref"
    /\ UNCHANGED <<stdout, exit_code>>
    /\ UNCHANGED <<argc, gen_file, ref_file, gen_shapes, gen_classified, ref_classified,
                   metrics, fuseVars, opsVars>>

\* line 217: gen_shapes = parse_shapes(generated_path)
ParseGenerated ==
    /\ cpc = "start"
    /\ argc >= 3
    /\ \/ /\ gen_file.status = "ok"
          /\ gen_shapes' = ParseShapes(gen_file)
          /\ cpc' = "parsed_gen"
          /\ UNCHANGED <<stdout, exit_code>>
       \/ /\ gen_file.status # "ok"
          /\ Uncaught
          /\ UNCHANGED gen_shapes
    /\ UNCHANGED <<argc, gen_file, ref_file, ref_shapes, gen_classified, ref_classified,
                   metrics, fuseVars, opsVars>>

\* line 218: ref_shapes = parse_shapes(reference_path)
ParseReference ==
    /\ cpc = "parsed_gen"
    /\ \/ /\ ref_file.status = "ok"
          /\ ref_shapes' = ParseShapes(ref_file)
          /\ cpc' = "parsed_ref"
          /\ UNCHANGED <<stdout, exit_code>>
       \/ /\ ref_file.status # "ok"
          /\ Uncaught
          /\ UNCHANGED ref_shapes
    /\ UNCHANGED <<argc, gen_file, ref_file, gen_shapes, gen_classified, ref_classified,
                   metrics, fuseVars, opsVars>>

\* lines 220-221
Classify ==
    /\ cpc = "parsed_ref"
    /\ gen_classified' = classify_shapes(gen_shapes)
    /\ ref_classified' = classify_shapes(ref_shapes)
    /\ cpc' = "classified"
    /\ UNCHANGED <<argc, gen_file, ref_file, gen_shapes, ref_shapes, metrics, stdout,
                   exit_code, fuseVars, opsVars>>

\* lines 223-294: the metrics, or the ZeroDivisionError of a "/".
Compare ==
    /\ cpc = "classified"
    /\ LET m == CompareMetrics(gen_classified, ref_classified)
       IN IF Raised(m)
          THEN /\ Uncaught
               /\ UNCHANGED metrics
          ELSE /\ metrics' = m
               /\ cpc' = "compared"
               /\ UNCHANGED <<stdout, exit_code>>
    /\ UNCHANGED <<argc, gen_file, ref_file, gen_shapes, ref_shapes, gen_classified,
                   ref_classified, fuseVars, opsVars>>

\* line 303, then the interpreter ends with status 0.
PrintResult ==
    /\ cpc = "compared"
    /\ stdout' = Append(stdout, "metrics")
    /\ exit_code' = 0
    /\ cpc' = "exit"
    /\ UNCHANGED <<argc, gen_file, ref_file, gen_shapes, ref_shapes, gen_classified,
                   ref_classified, metrics, fuseVars, opsVars>>

NextCompare ==
    Usage \/ ParseGenerated \/ ParseReference \/ Classify \/ Compare \/ PrintResult

CompareSpec == InitCompare /\ [][NextCompare]_vars

----------------------------------------------------------------------------
\* para_ops.py (OpsSpec)

\* What a run of para_ops.py may find: the status the Playwright run ends with
\* and whether it leaves a drawing behind, whether test-output holds a drawing
\* beforehand, whether the reference drawing exists, how the compare_dxf.py
\* subprocess ends and what its output holds, and, for debug-dxf, whether the
\* test tools import and what the target file is.
Environments ==
    [playwright_rc : {0, 1},
     writes_dxf : BOOLEAN,
     latest_dxf : BOOLEAN,
     reference_dxf : BOOLEAN,
     compare_rc : {0, 1},
     json_ok : BOOLEAN,
     overall_score : {750, 800},
     has_backplane_generated : BOOLEAN,
     importable : BOOLEAN,
     target : {"missing", "corrupt", "ok"}]

InitOps ==
    /\ cmd \in {"", "test-dxf", "check-dxf", "debug-dxf", "other"}
    /\ env \in Environments
    /\ test_runs = 0
    /\ returncode = 0
    /\ ops_out = << >>
    /\ ops_exit = 0 - 1
    /\ ops_pc = "main"
    /\ IdleFuse
    /\ IdleCompare

\* lines 118-124
MainUsage ==
    /\ ops_pc = "main"
    /\ cmd = ""
    /\ ops_out' = ops_out \o <<"usage">>
    /\ ops_exit' = 1
    /\ ops_pc' = "exit"
    /\ UNCHANGED <<cmd, env, test_runs, returncode, fuseVars, cmpVars>>

\* lines 135-137
MainUnknown ==
    /\ ops_pc = "main"
    /\ cmd \notin {"", "test-dxf", "check-dxf", "debug-dxf"}
    /\ ops_out' = ops_out \o <<"unknown command">>
    /\ ops_exit' = 1
    /\ ops_pc' = "exit"
    /\ UNCHANGED <<cmd, env, test_runs, returncode, fuseVars, cmpVars>>

\* What run_dxf_tests prints (lines 48, 58-60).
TestOutput(rc) ==
    <<"running tests", "playwright stdout">>
    \o (IF rc # 0 THEN <<"tests failed">> ELSE << >>)

\* A plausible slip: main ends the command with the status of a failed run.
RunDxfTestsExitsOnFailure ==
    /\ ops_pc = "main"
    /\ cmd = "test-dxf"
    /\ test_runs' = test_runs + 1
    /\ env' = [env EXCEPT !.latest_dxf = @ \/ env.writes_dxf]
    /\ ops_out' = ops_out \o TestOutput(env.playwright_rc)
    /\ returncode' = env.playwright_rc
    /\ IF env.playwright_rc # 0
       THEN ops_exit' = env.playwright_rc /\ ops_pc' = "exit"
       ELSE ops_pc' = "check" /\ UNCHANGED ops_exit
    /\ UNCHANGED <<cmd, fuseVars, cmpVars>>

\* lines 127-128 and run_dxf_tests (46-61): one subprocess.run; its status is
\* returned to main, which does not look at it.
RunDxfTests ==
    /\ ops_pc = "main"
    /\ cmd = "test-dxf"
    /\ test_runs' = test_runs + 1
    /\ env' = [env EXCEPT !.latest_dxf = @ \/ env.writes_dxf]
    /\ ops_out' = ops_out \o TestOutput(env.playwright_rc)
    /\ returncode' = env.playwright_rc
    /\ ops_pc' = "check"
    /\ UNCHANGED <<cmd, ops_exit, fuseVars, cmpVars>>

\* check_dxf_score succeeds: every sys.exit(1) of lines 66-91 is passed.
CheckSucceeds(e) ==
    e.latest_dxf /\ e.reference_dxf /\ e.compare_rc = 0 /\ e.json_ok

\* What check_dxf_score prints.
CheckOutput(e) ==
    IF ~e.latest_dxf THEN <<"no accuracy dxf">>
    ELSE IF ~e.reference_dxf THEN <<"no reference">>
    ELSE <<"comparing">> \o
         (IF e.compare_rc # 0 THEN <<"compare error">>
          ELSE IF ~e.json_ok THEN <<"json error">>
          ELSE <<"metrics">> \o
               (IF e.overall_score >= 800 THEN <<"SUCCESS">>
                ELSE <<"WARNING">> \o
                     (IF ~e.has_backplane_generated THEN <<"backplane hint">>
                      ELSE << >>)))

\* check_dxf_score (lines 63-115), called by test-dxf (line 129) and check-dxf
\* (line 131); main then returns and the command ends with status 0.
CheckDxfScore ==
    /\ \/ ops_pc = "check"
       \/ ops_pc = "main" /\ cmd = "check-dxf"
    /\ ops_out' = ops_out \o CheckOutput(env)
    /\ ops_exit' = IF CheckSucceeds(env) THEN 0 ELSE 1
    /\ ops_pc' = "exit"
    /\ UNCHANGED <<cmd, env, test_runs, returncode, fuseVars, cmpVars>>

\* lines 132-134 and debug_dxf_shapes (8-36); parse_shapes raises on a file
\* that is no drawing.
DebugDxf ==
    /\ ops_pc = "main"
    /\ cmd = "debug-dxf"
    /\ ops_out' = ops_out \o
           (IF ~env.importable THEN <<"import error">>
            ELSE IF env.target = "missing" THEN <<"not found">>
            ELSE IF env.target = "corrupt" THEN << >>
            ELSE <<"largest shapes", "potential slots">>)
    /\ ops_exit' = IF env.importable /\ env.target = "corrupt" THEN 1 ELSE 0
    /\ ops_pc' = "exit"
    /\ UNCHANGED <<cmd, env, test_runs, returncode, fuseVars, cmpVars>>

NextOps == MainUsage \/ MainUnknown \/ RunDxfTests \/ CheckDxfScore \/ DebugDxf

OpsSpec == InitOps /\ [][NextOps]_vars

----------------------------------------------------------------------------
\* Claims about the union-find pass

\* The hundredth of a millimetre a raw coordinate lies nearest to.
NearestHundredth(v) == CHOOSE k \in (v \div 10)..(v \div 10 + 1) : 2 * Abs(v - 10 * k) < 10

\* The quantized first and last point of primitive s.
EndPoints(s) ==
    { <<NearestHundredth(s.pts[k][1]), NearestHundredth(s.pts[k][2])>> : k \in {1, Len(s.pts)} }

\* i and j share a quantized first-or-last point.
Linked(shapes, i, j) == EndPoints(shapes[i]) \cap EndPoints(shapes[j]) # {}

\* The indices a chain of links connects to the ones in S.
RECURSIVE ChainFrom(_, _)
ChainFrom(shapes, S) ==
    LET T == S \cup { j \in 1..Len(shapes) : \E i \in S : Linked(shapes, i, j) }
    IN IF T = S THEN S ELSE ChainFrom(shapes, T)

Bijections(n) == { f \in [1..n -> 1..n] : \A a, b \in 1..n : f[a] = f[b] => a = b }

\* C1: when parse_shapes has grouped the primitives, two primitives are in the
\* same group iff a chain of primitives sharing a quantized first-or-last point
\* connects them (so an unlinked primitive is a singleton group), every
\* primitive is in exactly one group, and every permutation of the input list
\* yields the same partition of the primitives.
C1_FusionPartition ==
    fpc = "done" =>
        LET n == Len(raw_shapes)
            part == PartitionOf(groups)
        IN /\ \A i \in 1..n : Cardinality({ g \in part : i \in g }) = 1
           /\ \A i, j \in 1..n :
                 (\E g \in part : i \in g /\ j \in g) <=> j \in ChainFrom(raw_shapes, {i})
           /\ \A f \in Bijections(n) :
                 LET permuted == [k \in 1..n |-> raw_shapes[f[k]]]
                 IN { { f[k] : k \in g } : g \in PartitionOf(GroupsOf(permuted)) } = part

\* C1 witness: three primitives fused into one group although the first and the
\* last share no point (the chain runs through the second), the shared points
\* differing before quantization.
C1_Witness ==
    /\ fpc = "done"
    /\ Len(raw_shapes) = 3
    /\ PartitionOf(groups) = { {1, 2, 3} }
    /\ ~Linked(raw_shapes, 1, 3)
    /\ raw_shapes[1].pts[1] = <<0, 0>>
    /\ raw_shapes[2].pts[1] = <<4, 0>>

----------------------------------------------------------------------------
\* Claims about classification and comparison

Ids(shapes) == { s.id : s \in Range(shapes) }

\* The three lists of a classified set hold each descriptor at most once.
Disjoint(c) ==
    /\ Ids(c.sheets) \cap Ids(c.slots) = {}
    /\ Ids(c.rybs) \cap Ids(c.sheets) = {}
    /\ Ids(c.rybs) \cap Ids(c.slots) = {}
    /\ Len(c.sheets) + Len(c.slots) + Len(c.rybs)
           = Cardinality(Ids(c.sheets) \cup Ids(c.slots) \cup Ids(c.rybs))

\* C2: when classify_shapes has run, sheets, slots and rybs are pairwise
\* disjoint in both classified sets, no descriptor is listed twice, and total
\* counts every descriptor once.
C2_ClassificationDisjoint ==
    cpc = "classified" =>
        /\ Disjoint(gen_classified) /\ gen_classified.total = Len(gen_shapes)
        /\ Disjoint(ref_classified) /\ ref_classified.total = Len(ref_shapes)

\* C2 witness: a classified drawing with a sheet, a slot and a part.
C2_Witness ==
    /\ cpc = "classified"
    /\ gen_classified.sheets # << >>
    /\ gen_classified.slots # << >>
    /\ gen_classified.rybs # << >>

\* compare_dxfs has returned the metrics of a drawing compared with itself.
SelfCompared == cpc = "compared" /\ gen_file = ref_file

\* The area, in 1/100 mm^2, of the box enclosing a non-empty list of shapes.
EnclosingArea(shapes) ==
    (SetMax({ s.max_x : s \in Range(shapes) }) - SetMin({ s.min_x : s \in Range(shapes) }))
    * (SetMax({ s.max_y : s \in Range(shapes) }) - SetMin({ s.min_y : s \in Range(shapes) }))

\* C3 as claimed: a drawing compared with itself has all three count matches
\* true and both overlaps and the size-distribution match at 100.0.
C3_Original ==
    SelfCompared =>
        /\ metrics.shape_count_match /\ metrics.ryb_count_match /\ metrics.slot_count_match
        /\ metrics.bounding_box_overlap_rybs = 1000
        /\ metrics.bounding_box_overlap_slots = 1000
        /\ metrics.size_distribution_match = 1000

\* C3 as amended: a drawing compared with itself has all three count matches
\* true; with at least one part the part overlap and the size-distribution
\* match are 100.0, with none they are 0.0; the slot overlap is 0.0 with no slot
\* or a slot box of no area, 100.0 with a slot box of at least 1 mm^2, and 100
\* times the area for a smaller box.
C3_SelfComparison ==
    SelfCompared =>
        /\ metrics.shape_count_match /\ metrics.ryb_count_match /\ metrics.slot_count_match
        /\ IF gen_classified.rybs = << >>
           THEN /\ metrics.bounding_box_overlap_rybs = 0
                /\ metrics.size_distribution_match = 0
           ELSE /\ metrics.bounding_box_overlap_rybs = 1000
                /\ metrics.size_distribution_match = 1000
        /\ IF gen_classified.slots = << >>
           THEN metrics.bounding_box_overlap_slots = 0
           ELSE LET area == EnclosingArea(gen_classified.slots)
                IN metrics.bounding_box_overlap_slots
                       = IF area >= 100 THEN 1000 ELSE 10 * area

\* C3 witness: a self-comparison of a drawing with parts and slots.
C3_Witness ==
    /\ SelfCompared
    /\ gen_classified.rybs # << >>
    /\ gen_classified.slots # << >>
    /\ metrics.bounding_box_overlap_slots = 1000

\* A run whose generated drawing parses and holds no shape, against a reference
\* that parses.
EmptyGenerated ==
    /\ argc = 3
    /\ gen_file.status = "ok" /\ gen_file.shapes = << >>
    /\ ref_file.status = "ok"

\* C4: with an empty generated drawing, compare_dxfs raises nothing whatever
\* the reference (the run ends with status 0, the metrics printed); all
\* generated counts are 0, both overlaps and the size-distribution match are
\* 0.0, slot_width_consistency is false, and overall_score is at most 15, and 0
\* when the reference has a part.
C4_ZeroInputSafety ==
    EmptyGenerated =>
        /\ cpc = "exit" => exit_code = 0 /\ stdout = <<"metrics">>
        /\ cpc = "compared" =>
              /\ metrics.shape_count_generated = 0
              /\ metrics.ryb_count_generated = 0
              /\ metrics.slot_count_generated = 0
              /\ metrics.sheet_count_generated = 0
              /\ metrics.bounding_box_overlap_rybs = 0
              /\ metrics.bounding_box_overlap_slots = 0
              /\ metrics.size_distribution_match = 0
              /\ metrics.slot_width_consistency = FALSE
              /\ metrics.overall_score >= 0 /\ metrics.overall_score <= 150
              /\ ref_classified.rybs # << >> => metrics.overall_score = 0

\* C4 witness: an empty drawing compared with a non-empty reference that has no
\* part and no slot; the run has ended.
C4_Witness ==
    /\ EmptyGenerated
    /\ cpc = "exit"
    /\ ref_shapes # << >>
    /\ ref_classified.rybs = << >> /\ ref_classified.slots = << >>
    /\ metrics.overall_score = 150

\* Jaccard similarity of two sets in tenths of a percent.
Jaccard(A, B) == RoundHalfEven(1000 * Cardinality(A \cap B), Cardinality(A \cup B))

\* An area (1/10 mm^2) rounded down to a multiple of 100 mm^2.
HundredBelow(area) == area - (area % 1000)

\* An area rounded to the nearest multiple of 100 mm^2, a tie to the even one.
HundredNearest(area) ==
    LET low == HundredBelow(area)
        rest == area - low
    IN IF rest > 500 \/ (rest = 500 /\ (low \div 1000) % 2 = 1) THEN low + 1000 ELSE low

\* C5 as claimed: size_distribution_match is the Jaccard similarity of the two
\* sets of part areas rounded down to the nearest 100, and 0 when either side
\* has no part.
C5_Original ==
    cpc = "compared" =>
        metrics.size_distribution_match =
            IF gen_classified.rybs = << >> \/ ref_classified.rybs = << >> THEN 0
            ELSE Jaccard({ HundredBelow(s.area) : s \in Range(gen_classified.rybs) },
                         { HundredBelow(s.area) : s \in Range(ref_classified.rybs) })

\* C5 as amended: size_distribution_match is the Jaccard similarity of the two
\* sets of part areas rounded to the nearest 100 (a tie to the even hundred),
\* and 0 when either side has no part.
C5_SizeDistribution ==
    cpc = "compared" =>
        metrics.size_distribution_match =
            IF gen_classified.rybs = << >> \/ ref_classified.rybs = << >> THEN 0
            ELSE Jaccard({ HundredNearest(s.area) : s \in Range(gen_classified.rybs) },
                         { HundredNearest(s.area) : s \in Range(ref_classified.rybs) })

\* C5 witness: a part whose area rounds up on one side, one whose area lies on
\* a tie on the other, and a match strictly between 0 and 100.
C5_Witness ==
    /\ cpc = "compared"
    /\ \E s \in Range(gen_classified.rybs) : s.area % 1000 > 500
    /\ \E s \in Range(ref_classified.rybs) : s.area % 1000 = 500
    /\ metrics.size_distribution_match > 0
    /\ metrics.size_distribution_match < 1000

Readable == gen_file.status = "ok" /\ ref_file.status = "ok"

\* C6: in a two-argument run, nothing is ever printed unless both files parse;
\* the run ends with status 0 and exactly the metrics document printed when
\* both parse, and with a non-zero status otherwise.
C6_ExitCodes ==
    argc = 3 =>
        /\ ~Readable => stdout = << >>
        /\ cpc = "exit" =>
              IF Readable THEN exit_code = 0 /\ stdout = <<"metrics">>
              ELSE exit_code # 0

\* C6 witness: a run that ended on a reference file that is missing, the
\* generated drawing parsed.
C6_Witness ==
    /\ argc = 3
    /\ cpc = "exit"
    /\ gen_file.status = "ok" /\ gen_shapes # << >>
    /\ ref_file.status = "missing"
    /\ exit_code = 1

\* C7: overall_score lies between 0 and 100.
C7_ScoreRange ==
    cpc = "compared" => metrics.overall_score >= 0 /\ metrics.overall_score <= 1000

\* C7 witness: a comparison scoring the full 100, the generated drawing having
\* more parts than the reference.
C7_Witness ==
    /\ cpc = "compared"
    /\ metrics.overall_score = 1000
    /\ metrics.ryb_count_generated > metrics.ryb_count_reference

\* The box enclosing a non-empty list of shapes.
BoxOf(shapes) ==
    [x0 |-> SetMin({ s.min_x : s \in Range(shapes) }),
     x1 |-> SetMax({ s.max_x : s \in Range(shapes) }),
     y0 |-> SetMin({ s.min_y : s \in Range(shapes) }),
     y1 |-> SetMax({ s.max_y : s \in Range(shapes) })]

BoxArea(b) == (b.x1 - b.x0) * (b.y1 - b.y0)

\* The extent two boxes share along each axis (negative when they are apart).
SharedX(a, b) == Min(a.x1, b.x1) - Max(a.x0, b.x0)

SharedY(a, b) == Min(a.y1, b.y1) - Max(a.y0, b.y0)

\* Intersection over union of the enclosing boxes, in tenths of a percent, the
\* union floored at floor (in 1/100 mm^2).
IoU(shapes_a, shapes_b, floor) ==
    IF shapes_a = << >> \/ shapes_b = << >> THEN 0
    ELSE LET a == BoxOf(shapes_a)
             b == BoxOf(shapes_b)
         IN IF SharedX(a, b) <= 0 \/ SharedY(a, b) <= 0 THEN 0
            ELSE LET inter == SharedX(a, b) * SharedY(a, b)
                 IN PermilleOf(inter, Max(BoxArea(a) + BoxArea(b) - inter, floor))

\* C8 as claimed: each overlap metric is 0 for an empty side or boxes that do
\* not overlap on both axes, and otherwise intersection area / union area.
C8_Original ==
    cpc = "compared" =>
        /\ metrics.bounding_box_overlap_rybs
               = IoU(gen_classified.rybs, ref_classified.rybs, 0)
        /\ metrics.bounding_box_overlap_slots
               = IoU(gen_classified.slots, ref_classified.slots, 0)

\* C8 as amended: each overlap metric is 0 for an empty side or boxes that do
\* not overlap on both axes, and otherwise intersection area / max(union area,
\* 1 mm^2), as a percentage rounded to 1 decimal.
C8_BoundingBoxOverlap ==
    cpc = "compared" =>
        /\ metrics.bounding_box_overlap_rybs
               = IoU(gen_classified.rybs, ref_classified.rybs, 100)
        /\ metrics.bounding_box_overlap_slots
               = IoU(gen_classified.slots, ref_classified.slots, 100)

\* C8 witness: part boxes that overlap in part, slot boxes that are apart.
C8_Witness ==
    /\ cpc = "compared"
    /\ metrics.bounding_box_overlap_rybs > 0
    /\ metrics.bounding_box_overlap_rybs < 1000
    /\ gen_classified.slots # << >> /\ ref_classified.slots # << >>
    /\ metrics.bounding_box_overlap_slots = 0

Indicator(b, points) == IF b THEN points ELSE 0

\* The five fixed terms of the score.
FixedTerms(g, r) ==
    Indicator(Len(g.slots) > 0, 15)
    + Indicator(Len(g.rybs) > 0, 15)
    + Indicator(\E s \in Range(g.rybs) : s.area > Mm2(500000), 10)
    + Indicator(\E s \in Range(g.rybs) : s.area > Mm2(500000) /\ s.num_pts > 50, 15)
    + Indicator(Cardinality({ s \in Range(g.rybs) : s.area < Mm2(500000) /\ s.num_pts >= 8 })
                    >= Min(Len(r.rybs), 10), 15)

\* 15 * min(generated, reference) / max(reference, 1) capped at 15, times den,
\* a multiple of max(reference, 1).
Proportional(generated, reference, den) ==
    Min(15 * den, (15 * Min(generated, reference) * den) \div Max(reference, 1))

\* The common denominator of the two proportional terms.
ScoreDen(r) == Max(Len(r.rybs), 1) * Max(Len(r.slots), 1)

\* The seven-term sum times ScoreDen(r).
ScoreSum(g, r) ==
    FixedTerms(g, r) * ScoreDen(r)
    + Proportional(Len(g.rybs), Len(r.rybs), ScoreDen(r))
    + Proportional(Len(g.slots), Len(r.slots), ScoreDen(r))

\* C9 as claimed: overall_score is exactly the sum of the seven terms.
C9_Original ==
    cpc = "compared" =>
        metrics.overall_score * ScoreDen(ref_classified)
            = 10 * ScoreSum(gen_classified, ref_classified)

\* C9 as amended: overall_score is the sum of the seven terms rounded to 1
\* decimal (a tie to the even tenth).
C9_ScoreFormula ==
    cpc = "compared" =>
        metrics.overall_score
            = RoundHalfEven(10 * ScoreSum(gen_classified, ref_classified),
                            ScoreDen(ref_classified))

\* C9 witness: one generated part against four reference parts, the sum 18.75
\* reported as 18.8.
C9_Witness ==
    /\ cpc = "compared"
    /\ metrics.ryb_count_generated = 1
    /\ metrics.ryb_count_reference = 4
    /\ metrics.overall_score = 188

----------------------------------------------------------------------------
\* Claims about para_ops.py

\* C10 as claimed: the Playwright run is started exactly once, and a test-dxf
\* command whose Playwright run failed does not end with status 0.
C10_Original ==
    (cmd = "test-dxf" /\ ops_pc = "exit") =>
        /\ test_runs = 1
        /\ env.playwright_rc # 0 => ops_exit # 0

\* C10 as amended: the Playwright run is started exactly once (never again);
\* run_dxf_tests prints a failure notice exactly when the run failed and
\* returns the run's status unchanged to main, which ignores it: the command
\* goes on to check_dxf_score and ends with status 0 exactly when that check
\* succeeds, whatever the status of the run.
C10_TestRunOnceStatusIgnored ==
    cmd = "test-dxf" =>
        /\ test_runs <= 1
        /\ ops_pc \in {"check", "exit"} =>
              /\ test_runs = 1
              /\ returncode = env.playwright_rc
              /\ (env.playwright_rc # 0) <=> (\E k \in 1..Len(ops_out) : ops_out[k] = "tests failed")
        /\ ops_pc = "exit" => (ops_exit = 0 <=> CheckSucceeds(env))

\* C10 witness: a test-dxf command that ended with status 0 although its
\* Playwright run had failed.
C10_Witness ==
    /\ cmd = "test-dxf"
    /\ ops_pc = "exit"
    /\ env.playwright_rc # 0
    /\ test_runs = 1
    /\ ops_exit = 0

====
